---- MODULE Spec2Model ----
(***************************************************************************)
(* Model of the Tughra text-transform engine (class Tughra) and its        *)
(* background-worker relay.  A text is a sequence of UTF-16 code units     *)
(* (naturals below 65536), a byte string a sequence of naturals below 256. *)
(* The outcome of a call is a record: it returned a value ("ok"), it threw *)
(* an exception ("throw"), or it runs a loop that has no end of its own    *)
(* ("hang"), which only a limit of the runtime stops.                      *)
(***************************************************************************)
EXTENDS Integers, Sequences, FiniteSets, TLC

VARIABLES
    args,   \* the arguments the engine was last constructed with
    eng,    \* the outcome of that construction; eng.val is the engine object
    text,   \* the text handed to the first call of the current run of calls
    out,    \* the outcome of the latest call
    log     \* the calls made since text was chosen, oldest first

vars == <<args, eng, text, out, log>>

\* ------------------------------------------------------------------ outcomes

Ok(v) == [kind |-> "ok", val |-> v, msg |-> ""]

Throw(m) == [kind |-> "throw", val |-> <<>>, msg |-> m]

Hang == [kind |-> "hang", val |-> <<>>, msg |-> ""]

NoCall == [kind |-> "none", val |-> <<>>, msg |-> ""]

\* ------------------------------------------------------- JavaScript numbers

\* a % m of JavaScript: the remainder has the sign of the dividend
JsRem(a, m) == IF a >= 0 THEN a % m ELSE 0 - ((0 - a) % m)

\* String.fromCharCode(n): the code unit is ToUint16(n)
fromCharCode(n) == ((n % 65536) + 65536) % 65536

RECURSIVE Xor(_, _)
\* a ^ b on non-negative integers
Xor(a, b) ==
    IF a = 0 THEN b
    ELSE IF b = 0 THEN a
    ELSE (((a % 2) + (b % 2)) % 2) + 2 * Xor(a \div 2, b \div 2)

RECURSIVE Pow(_, _)
Pow(x, n) == IF n = 0 THEN 1 ELSE x * Pow(x, n - 1)

\* --------------------------------------------------------- sequence helpers

RECURSIVE Flatten(_)
\* the concatenation of a sequence of sequences (Array.prototype.join(''))
Flatten(ss) ==
    IF ss = <<>> THEN <<>>
    ELSE IF Len(ss) = 1 THEN ss[1]
    ELSE Flatten(SubSeq(ss, 1, Len(ss) \div 2))
         \o Flatten(SubSeq(ss, (Len(ss) \div 2) + 1, Len(ss)))

\* text.split('').map(f).join('') and text.replace(/./g, f): f on each code unit
MapChars(f(_), s) == [i \in 1..Len(s) |-> f(s[i])]

\* the sub-string s[from..to] (1-based, inclusive), clipped to s
Slice(s, from, to) ==
    LET hi == IF to > Len(s) THEN Len(s) ELSE to
    IN  IF from > hi THEN <<>> ELSE [i \in 1..(hi - from + 1) |-> s[from + i - 1]]

\* String.prototype.indexOf for one code unit, 0-based; -1 when absent
indexOf(s, c) ==
    IF \E i \in 1..Len(s) : s[i] = c
    THEN (CHOOSE i \in 1..Len(s) : s[i] = c /\ \A j \in 1..(i - 1) : s[j] # c) - 1
    ELSE -1

RECURSIVE toBinary(_)
\* Number.prototype.toString(2) of a non-negative integer, as a sequence of 0/1
toBinary(n) == IF n < 2 THEN <<n>> ELSE toBinary(n \div 2) \o <<n % 2>>

RECURSIVE padStart(_, _, _)
padStart(s, w, fill) == IF Len(s) >= w THEN s ELSE padStart(<<fill>> \o s, w, fill)

RECURSIVE padEnd(_, _, _)
padEnd(s, w, fill) == IF Len(s) >= w THEN s ELSE padEnd(s \o <<fill>>, w, fill)

RECURSIVE parseBinary(_)
\* parseInt(bits, 2) of a non-empty string of binary digits
parseBinary(bits) ==
    IF bits = <<>> THEN 0
    ELSE 2 * parseBinary(SubSeq(bits, 1, Len(bits) - 1)) + bits[Len(bits)]

RECURSIVE toDecimal(_)
\* String(n) of a non-negative integer, as code units of decimal digits
toDecimal(n) == IF n < 10 THEN <<48 + n>> ELSE toDecimal(n \div 10) \o <<48 + (n % 10)>>

\* -------------------------------------------------------------------- UTF-8

IsHighSurrogate(c) == c >= 55296 /\ c <= 56319

IsLowSurrogate(c) == c >= 56320 /\ c <= 57343

\* the UTF-8 bytes of one code point
Utf8OfCodePoint(cp) ==
    IF cp < 128 THEN <<cp>>
    ELSE IF cp < 2048 THEN <<192 + (cp \div 64), 128 + (cp % 64)>>
    ELSE IF cp < 65536
         THEN <<224 + (cp \div 4096), 128 + ((cp \div 64) % 64), 128 + (cp % 64)>>
    ELSE <<240 + (cp \div 262144), 128 + ((cp \div 4096) % 64),
           128 + ((cp \div 64) % 64), 128 + (cp % 64)>>

\* the bytes the code unit at i contributes to the UTF-8 form of s: a high
\* surrogate followed by a low one gives the four bytes of their code point,
\* that low surrogate nothing more, a lone surrogate the bytes of U+FFFD
Utf8At(s, i) ==
    IF IsHighSurrogate(s[i]) /\ i < Len(s) /\ IsLowSurrogate(s[i + 1])
    THEN Utf8OfCodePoint(65536 + (s[i] - 55296) * 1024 + (s[i + 1] - 56320))
    ELSE IF IsLowSurrogate(s[i]) /\ i > 1 /\ IsHighSurrogate(s[i - 1]) THEN <<>>
    ELSE IF IsHighSurrogate(s[i]) \/ IsLowSurrogate(s[i]) THEN <<239, 191, 189>>
    ELSE Utf8OfCodePoint(s[i])

\* new TextEncoder().encode(s)
TextEncoderEncode(s) == Flatten([i \in 1..Len(s) |-> Utf8At(s, i)])

\* whether s holds a surrogate that is not half of a pair
HasLoneSurrogate(s) ==
    \E i \in 1..Len(s) :
        \/ IsHighSurrogate(s[i]) /\ ~(i < Len(s) /\ IsLowSurrogate(s[i + 1]))
        \/ IsLowSurrogate(s[i]) /\ ~(i > 1 /\ IsHighSurrogate(s[i - 1]))

\* unescape(encodeURIComponent(s)): the UTF-8 bytes as a string of code units
\* below 256; encodeURIComponent throws URIError on a lone surrogate
encodeURIComponentUnescape(s) ==
    IF HasLoneSurrogate(s) THEN Throw("URI malformed") ELSE Ok(TextEncoderEncode(s))

\* the number of continuation bytes a lead byte announces; 0 for no lead byte
Utf8Needed(b) ==
    IF b >= 194 /\ b <= 223 THEN 1
    ELSE IF b >= 224 /\ b <= 239 THEN 2
    ELSE IF b >= 240 /\ b <= 244 THEN 3
    ELSE 0

\* the range a lead byte allows for the byte that follows it
Utf8Lower(b) == IF b = 224 THEN 160 ELSE IF b = 240 THEN 144 ELSE 128

Utf8Upper(b) == IF b = 237 THEN 159 ELSE IF b = 244 THEN 143 ELSE 191

\* how many of the n continuation bytes after the lead byte at i are present and valid
Utf8Good(bytes, i, n) ==
    LET okAt(k) ==
            /\ i + k <= Len(bytes)
            /\ bytes[i + k] >= (IF k = 1 THEN Utf8Lower(bytes[i]) ELSE 128)
            /\ bytes[i + k] <= (IF k = 1 THEN Utf8Upper(bytes[i]) ELSE 191)
        S == {j \in 0..n : \A k \in 1..j : okAt(k)}
    IN  CHOOSE j \in S : \A j2 \in S : j2 <= j

\* the code point of the well-formed sequence of n + 1 bytes at i
Utf8CodePoint(bytes, i, n) ==
    LET lead == IF n = 1 THEN bytes[i] - 192
                ELSE IF n = 2 THEN bytes[i] - 224 ELSE bytes[i] - 240
        cont(k) == (bytes[i + k] - 128) * Pow(64, n - k)
    IN  lead * Pow(64, n)
        + cont(1)
        + (IF n >= 2 THEN cont(2) ELSE 0)
        + (IF n >= 3 THEN cont(3) ELSE 0)

\* whether the byte at i is taken as a continuation byte of a lead byte before
\* it (a lead byte is never one, so every lead byte starts a part of its own)
Utf8Covered(bytes, i) ==
    \E j \in (i - 3)..(i - 1) :
        /\ j >= 1
        /\ Utf8Needed(bytes[j]) >= i - j
        /\ Utf8Good(bytes, j, Utf8Needed(bytes[j])) >= i - j

\* what the decoder of the Encoding standard emits for the part that starts at
\* i: a code point, or -1 for an ill-formed part, which ends before the
\* offending byte
Utf8Part(bytes, i) ==
    IF Utf8Covered(bytes, i) THEN <<>>
    ELSE IF bytes[i] < 128 THEN <<bytes[i]>>
    ELSE IF Utf8Needed(bytes[i]) = 0 THEN <<-1>>
    ELSE IF Utf8Good(bytes, i, Utf8Needed(bytes[i])) = Utf8Needed(bytes[i])
         THEN <<Utf8CodePoint(bytes, i, Utf8Needed(bytes[i]))>>
    ELSE <<-1>>

\* the code points of bytes, -1 for each ill-formed part
Utf8Scan(bytes) == Flatten([i \in 1..Len(bytes) |-> Utf8Part(bytes, i)])

\* the UTF-16 code units of a sequence of code points (-1 is left as it is)
Utf16Of(cps) ==
    Flatten([i \in 1..Len(cps) |->
        IF cps[i] >= 65536
        THEN <<55296 + ((cps[i] - 65536) \div 1024), 56320 + ((cps[i] - 65536) % 1024)>>
        ELSE <<cps[i]>>])

\* new TextDecoder().decode(bytes): a leading byte order mark is dropped and
\* every ill-formed part becomes U+FFFD
TextDecoderDecode(bytes) ==
    LET body == IF Len(bytes) >= 3 /\ bytes[1] = 239 /\ bytes[2] = 187 /\ bytes[3] = 191
                THEN Slice(bytes, 4, Len(bytes)) ELSE bytes
        cps == Utf8Scan(body)
    IN  Utf16Of([i \in 1..Len(cps) |-> IF cps[i] = -1 THEN 65533 ELSE cps[i]])

\* decodeURIComponent(escape(s)) for a string s of code units below 256: the
\* string the bytes encode in UTF-8; URIError when they are ill-formed
decodeURIComponentEscape(s) ==
    LET cps == Utf8Scan(s)
    IN  IF (\E i \in 1..Len(s) : s[i] > 255) \/ (\E i \in 1..Len(cps) : cps[i] = -1)
        THEN Throw("URI malformed")
        ELSE Ok(Utf16Of(cps))

\* ------------------------------------------------------------------- Base64

\* the i-th symbol (from 0) of the Base64 alphabet A-Z a-z 0-9 + /
b64Char(i) ==
    IF i < 26 THEN 65 + i
    ELSE IF i < 52 THEN 97 + (i - 26)
    ELSE IF i < 62 THEN 48 + (i - 52)
    ELSE IF i = 62 THEN 43 ELSE 47

\* the value of a Base64 symbol; -1 for any other code unit
b64Value(c) ==
    IF c >= 65 /\ c <= 90 THEN c - 65
    ELSE IF c >= 97 /\ c <= 122 THEN c - 97 + 26
    ELSE IF c >= 48 /\ c <= 57 THEN c - 48 + 52
    ELSE IF c = 43 THEN 62
    ELSE IF c = 47 THEN 63 ELSE -1

\* the four Base64 symbols of the group of up to three bytes that starts at i,
\* padded with "="
b64Group(bytes, i) ==
    LET b1 == bytes[i]
        b2 == IF i + 1 <= Len(bytes) THEN bytes[i + 1] ELSE 0
        b3 == IF i + 2 <= Len(bytes) THEN bytes[i + 2] ELSE 0
        n == b1 * 65536 + b2 * 256 + b3
    IN  <<b64Char(n \div 262144), b64Char((n \div 4096) % 64),
          IF i + 1 <= Len(bytes) THEN b64Char((n \div 64) % 64) ELSE 61,
          IF i + 2 <= Len(bytes) THEN b64Char(n % 64) ELSE 61>>

\* the Base64 symbols of bytes, three bytes to four symbols
b64Groups(bytes) ==
    Flatten([g \in 1..((Len(bytes) + 2) \div 3) |-> b64Group(bytes, 3 * g - 2)])

\* btoa(s): InvalidCharacterError when a code unit is above 255
btoa(s) ==
    IF \E i \in 1..Len(s) : s[i] > 255
    THEN Throw("InvalidCharacterError")
    ELSE Ok(b64Groups(s))

\* the bytes of the group of up to four Base64 symbols that starts at i;
\* left-over bits are dropped
b64GroupBytes(s, i) ==
    LET v(k) == IF i + k <= Len(s) THEN b64Value(s[i + k]) ELSE 0
        n == v(0) * 262144 + v(1) * 4096 + v(2) * 64 + v(3)
        have == IF Len(s) - i + 1 >= 4 THEN 3 ELSE Len(s) - i
    IN  Slice(<<n \div 65536, (n \div 256) % 256, n % 256>>, 1, have)

\* the bytes of a string of Base64 symbols
b64Bytes(s) ==
    Flatten([g \in 1..((Len(s) + 3) \div 4) |-> b64GroupBytes(s, 4 * g - 3)])

\* atob(s), the forgiving-base64 decode: ASCII whitespace is removed, one or
\* two "=" end a string whose length is a multiple of four, and a length of
\* 4k + 1 or any other code unit raises InvalidCharacterError
atob(s) ==
    LET ws == {9, 10, 12, 13, 32}
        idx == {i \in 1..Len(s) : s[i] \notin ws}
        nth(k) == CHOOSE i \in idx : Cardinality({j \in idx : j <= i}) = k
        t == [k \in 1..Cardinality(idx) |-> s[nth(k)]]
        cutEnd == IF Len(t) % 4 = 0 /\ Len(t) >= 2 /\ t[Len(t)] = 61 /\ t[Len(t) - 1] = 61
                  THEN 2
                  ELSE IF Len(t) % 4 = 0 /\ Len(t) >= 1 /\ t[Len(t)] = 61 THEN 1 ELSE 0
        u == Slice(t, 1, Len(t) - cutEnd)
    IN  IF Len(u) % 4 = 1 \/ (\E i \in 1..Len(u) : b64Value(u[i]) = -1)
        THEN Throw("InvalidCharacterError")
        ELSE Ok(b64Bytes(u))

\* ------------------------------------------------------- the base-N library

\* floor(e^k) for k = 1..12: Math.log(n) <= k exactly when n <= ExpFloor[k]
ExpFloor == <<2, 7, 20, 54, 148, 403, 1096, 2980, 8103, 22026, 59874, 162754>>

\* Math.ceil(Math.log(base)) for 1 <= base <= 162754 (the natural logarithm)
ceilLog(base) ==
    IF base <= 1 THEN 0
    ELSE CHOOSE k \in 1..Len(ExpFloor) :
            base <= ExpFloor[k] /\ \A j \in 1..(k - 1) : base > ExpFloor[j]

\* the string "undefined", which output += alphabet[index] appends when index
\* is not an index of alphabet
Undefined == <<117, 110, 100, 101, 102, 105, 110, 101, 100>>

\* text.charCodeAt(i).toString(2).padStart(8, '0') of every code unit, joined
binaryOf(s) == Flatten([i \in 1..Len(s) |-> padStart(toBinary(s[i]), 8, 0)])

\* one round of the loop of encode: what the chunk at position i (1-based) of
\* binary appends to output
encodeChunk(alphabet, binary, chunkSize, i) ==
    LET chunk == padEnd(Slice(binary, i, i + chunkSize - 1), chunkSize, 0)
        index == parseBinary(chunk)
    IN  IF index < Len(alphabet) THEN <<alphabet[index + 1]>> ELSE Undefined

\* the loop of encode over binary; it runs no round when binary is empty, and
\* needs chunkSize > 0 to end otherwise
encodeChunks(alphabet, binary, chunkSize) ==
    IF binary = <<>> THEN <<>>
    ELSE Flatten([k \in 1..((Len(binary) + chunkSize - 1) \div chunkSize) |->
        encodeChunk(alphabet, binary, chunkSize, (k - 1) * chunkSize + 1)])

\* Library.encode of baseEncodeDecode(alphabet): with chunkSize 0 the loop
\* for (i = 0; i < binary.length; i += chunkSize) never advances, and output
\* grows by "undefined" on every turn
encode(alphabet, chunkSize, s) ==
    IF chunkSize = 0 /\ s # <<>> THEN Hang
    ELSE Ok(encodeChunks(alphabet, binaryOf(s), chunkSize))

\* the second loop of decode: every full group of 8 bits is one code unit
decodeBytes(binary) ==
    [k \in 1..(Len(binary) \div 8) |-> parseBinary(Slice(binary, 8 * k - 7, 8 * k))]

\* Library.decode of baseEncodeDecode(alphabet)
decode(alphabet, chunkSize, s) ==
    IF \E i \in 1..Len(s) : indexOf(alphabet, s[i]) = -1
    THEN Throw("Invalid Base character")
    ELSE Ok(decodeBytes(Flatten([i \in 1..Len(s) |->
                padStart(toBinary(indexOf(alphabet, s[i])), chunkSize, 0)])))

\* baseEncodeDecode(alphabet): the library closes over alphabet and chunkSize
baseEncodeDecode(alphabet) ==
    [alphabet |-> alphabet, chunkSize |-> ceilLog(Len(alphabet))]

\* -------------------------------------------------------------- constructor

\* 'ABCDEFGHIJKLMNOPQRSTUVWXYZabcdefghijklmnopqrstuvwxyz0123456789+/='
DefaultCharset == [i \in 1..65 |-> IF i <= 64 THEN b64Char(i - 1) ELSE 61]

\* this.a, this.b, this.m
AffineA == 5

AffineB == 8

AffineM == 26

\* the values of this.substitutionKey for 'a'..'z' and for 'A'..'Z'
SubstLower ==
    <<113, 119, 101, 114, 116, 121, 117, 105, 111, 112, 97, 115, 100,
      102, 103, 104, 106, 107, 108, 122, 120, 99, 118, 98, 110, 109>>

SubstUpper ==
    <<81, 87, 69, 82, 84, 89, 85, 73, 79, 80, 65, 83, 68,
      70, 71, 72, 74, 75, 76, 90, 88, 67, 86, 66, 78, 77>>

\* this.substitutionKey[char] || char
substitutionKey(c) ==
    IF c >= 97 /\ c <= 122 THEN SubstLower[c - 96]
    ELSE IF c >= 65 /\ c <= 90 THEN SubstUpper[c - 64]
    ELSE c

\* mutant of reverseSubstitutionKey: the table is looked up the forward way
reverseSubstitutionKey_Forward(c) == substitutionKey(c)

\* this.reverseSubstitutionKey[char] || char: the table with keys and values swapped
reverseSubstitutionKey(c) ==
    IF \E k \in (65..90) \cup (97..122) : substitutionKey(k) = c
    THEN CHOOSE k \in (65..90) \cup (97..122) :
            /\ substitutionKey(k) = c
            /\ \A k2 \in (65..90) \cup (97..122) : substitutionKey(k2) = c => k2 <= k
    ELSE c

RECURSIVE codePointItems(_, _)
\* the items a string yields when iterated: a surrogate pair is one item
codePointItems(s, i) ==
    IF i > Len(s) THEN <<>>
    ELSE IF IsHighSurrogate(s[i]) /\ i < Len(s) /\ IsLowSurrogate(s[i + 1])
         THEN <<(<<s[i], s[i + 1]>>)>> \o codePointItems(s, i + 2)
    ELSE <<(<<s[i]>>)>> \o codePointItems(s, i + 1)

\* mutant of uniqueKeyOffsets: the key is kept as supplied, repeats included
uniqueKeyOffsets_Raw(encryptionKey) == encryptionKey

\* Array.from(new Set(encryptionKey)).join(''): every item once, in the order
\* of first occurrence (charCodeAt(0) of an item is never NaN)
uniqueKeyOffsets(encryptionKey) ==
    LET items == codePointItems(encryptionKey, 1)
        first == {i \in 1..Len(items) : \A j \in 1..(i - 1) : items[j] # items[i]}
        nth(k) == CHOOSE i \in first : Cardinality({j \in first : j <= i}) = k
    IN  Flatten([k \in 1..Cardinality(first) |-> items[nth(k)]])

\* checkKeyStrength: whether it lets the key pass
\* mutant of checkKeyStrength: a key of 3 characters is long enough
checkKeyStrength_Three(encryptionKey) == Len(encryptionKey) >= 3

checkKeyStrength(encryptionKey) == Len(encryptionKey) >= 8

\* mutant of Tughra: the key strength is checked only for the variants whose
\* transform reads the key
Tughra_KeyedOnly(mode, baseCharset, algorithm, encryptionKey, useBaseEncoding) ==
    IF algorithm = "default" /\ uniqueKeyOffsets(encryptionKey) = <<>>
    THEN Throw("keyOffsets must contain at least one valid value.")
    ELSE IF /\ algorithm \in {"caesar", "vigenere", "xor", "ASCII", "Unicode Shift",
                              "Reversed Caesar", "XOR Pro"}
            /\ ~checkKeyStrength(encryptionKey)
    THEN Throw("Key must be at least 8 characters long.")
    ELSE Ok([keyOffsets |-> uniqueKeyOffsets(encryptionKey),
             mode |-> IF mode = "" THEN "encrypt" ELSE mode,
             useBaseEncoding |-> useBaseEncoding,
             baseCharset |-> IF baseCharset = <<>> THEN DefaultCharset ELSE baseCharset,
             baseLibrary |-> baseEncodeDecode(
                 IF baseCharset = <<>> THEN DefaultCharset ELSE baseCharset),
             encryptionKey |-> TextEncoderEncode(encryptionKey),
             algorithm |-> IF algorithm = "" THEN "default" ELSE algorithm,
             a |-> AffineA, b |-> AffineB, m |-> AffineM])

\* new Tughra(mode, baseCharset, algorithm, encryptionKey, useBaseEncoding);
\* "" stands for an argument that is falsy
Tughra(mode, baseCharset, algorithm, encryptionKey, useBaseEncoding) ==
    IF algorithm = "default" /\ uniqueKeyOffsets(encryptionKey) = <<>>
    THEN Throw("keyOffsets must contain at least one valid value.")
    ELSE IF algorithm # "default" /\ ~checkKeyStrength(encryptionKey)
    THEN Throw("Key must be at least 8 characters long.")
    ELSE Ok([keyOffsets |-> uniqueKeyOffsets(encryptionKey),
             mode |-> IF mode = "" THEN "encrypt" ELSE mode,
             useBaseEncoding |-> useBaseEncoding,
             baseCharset |-> IF baseCharset = <<>> THEN DefaultCharset ELSE baseCharset,
             baseLibrary |-> baseEncodeDecode(
                 IF baseCharset = <<>> THEN DefaultCharset ELSE baseCharset),
             encryptionKey |-> TextEncoderEncode(encryptionKey),
             algorithm |-> IF algorithm = "" THEN "default" ELSE algorithm,
             a |-> AffineA, b |-> AffineB, m |-> AffineM])

\* ----------------------------------------------------------------- variants
\* Every variant takes the engine object this and a text, and gives an outcome.

\* /[A-Za-z]/.test(char)
IsLetter(c) == (c >= 65 /\ c <= 90) \/ (c >= 97 /\ c <= 122)

\* char <= 'Z' ? 65 : 97, and char === char.toUpperCase() ? 65 : 97, for a letter
letterBase(c) == IF c <= 90 THEN 65 ELSE 97

\* the null that _modInverse returns when there is no inverse
Null == -1

_modInverse(a, m) ==
    IF \E x \in 1..(m - 1) : (a * x) % m = 1
    THEN CHOOSE x \in 1..(m - 1) :
            (a * x) % m = 1 /\ \A y \in 1..(x - 1) : (a * y) % m # 1
    ELSE Null

_encryptAffine(this, s) ==
    LET f(c) == IF IsLetter(c)
                THEN fromCharCode(JsRem(this.a * (c - letterBase(c)) + this.b, 26)
                                  + letterBase(c))
                ELSE c
    IN  Ok(MapChars(f, s))

_decryptAffine(this, s) ==
    LET inv == _modInverse(this.a, 26)
        a_inv == IF inv = Null THEN 0 ELSE inv
        f(c) == IF IsLetter(c)
                THEN fromCharCode(
                        JsRem(JsRem(a_inv * (c - letterBase(c) - this.b + 26), 26) + 26, 26)
                        + letterBase(c))
                ELSE c
    IN  Ok(MapChars(f, s))

_encryptAffinePro(this, s) ==
    LET f(c) == IF IsLetter(c)
                THEN fromCharCode(JsRem(this.a * (c - letterBase(c)) + this.b, this.m)
                                  + letterBase(c))
                ELSE c
    IN  Ok(MapChars(f, s))

\* mutant of _decryptAffinePro: the additive key b is not taken off
_decryptAffinePro_NoShift(this, s) ==
    LET aInv == _modInverse(this.a, this.m)
        f(c) == IF IsLetter(c)
                THEN fromCharCode(JsRem(aInv * (c - letterBase(c) + this.m), this.m)
                                  + letterBase(c))
                ELSE c
    IN  IF aInv = Null
        THEN Throw("No modular inverse exists for the given key 'a'")
        ELSE Ok(MapChars(f, s))

_decryptAffinePro(this, s) ==
    LET aInv == _modInverse(this.a, this.m)
        f(c) == IF IsLetter(c)
                THEN fromCharCode(
                        JsRem(aInv * (c - letterBase(c) - this.b + this.m), this.m)
                        + letterBase(c))
                ELSE c
    IN  IF aInv = Null
        THEN Throw("No modular inverse exists for the given key 'a'")
        ELSE Ok(MapChars(f, s))

_encryptSubstitutionPro(this, s) == Ok(MapChars(substitutionKey, s))

_decryptSubstitutionPro(this, s) == Ok(MapChars(reverseSubstitutionKey, s))

\* the body shared by the ROT13, ROT18, ROT25 and ROT30 functions: every letter
\* is moved by shift places within its own case
rotLetters(s, shift) ==
    LET f(c) == IF IsLetter(c)
                THEN fromCharCode(JsRem(c - letterBase(c) + shift, 26) + letterBase(c))
                ELSE c
    IN  MapChars(f, s)

_encryptROT13(this, s) == Ok(rotLetters(s, 13))

_decryptROT13(this, s) == _encryptROT13(this, s)

_encryptROT18(this, s) == Ok(rotLetters(s, 18))

_decryptROT18(this, s) == Ok(rotLetters(s, 26 - 18))

_encryptROT25(this, s) == Ok(rotLetters(s, 25))

_decryptROT25(this, s) == Ok(rotLetters(s, 26 - 25))

_encryptROT30(this, s) == Ok(rotLetters(s, 4))

_decryptROT30(this, s) ==
    LET f(c) == IF IsLetter(c)
                THEN fromCharCode(JsRem(JsRem(c - letterBase(c) + 22, 26) + 26, 26)
                                  + letterBase(c))
                ELSE c
    IN  Ok(MapChars(f, s))

_encryptXORPro(this, s, key) ==
    Ok([i \in 1..Len(s) |-> fromCharCode(Xor(s[i], key[((i - 1) % Len(key)) + 1]))])

_decryptXORPro(this, s, key) == _encryptXORPro(this, s, key)

_TughraEncrypt(this, s) ==
    Ok([i \in 1..Len(s) |->
        fromCharCode(s[i] + this.keyOffsets[((i - 1) % Len(this.keyOffsets)) + 1])])

\* mutant of _TughraDecrypt: a difference below zero is cut to 0 instead of
\* wrapping to 16 bits
_TughraDecrypt_Clamped(this, s) ==
    Ok([i \in 1..Len(s) |->
        IF s[i] < this.keyOffsets[((i - 1) % Len(this.keyOffsets)) + 1] THEN 0
        ELSE s[i] - this.keyOffsets[((i - 1) % Len(this.keyOffsets)) + 1]])

_TughraDecrypt(this, s) ==
    Ok([i \in 1..Len(s) |->
        fromCharCode(s[i] - this.keyOffsets[((i - 1) % Len(this.keyOffsets)) + 1])])

_caesarEncrypt(this, s) ==
    LET f(c) == fromCharCode(c + Len(this.encryptionKey)) IN Ok(MapChars(f, s))

_caesarDecrypt(this, s) ==
    LET f(c) == fromCharCode(c - Len(this.encryptionKey)) IN Ok(MapChars(f, s))

\* _arrayBufferToBase64(buffer): btoa of the bytes as code units
_arrayBufferToBase64(buffer) == btoa(buffer)

\* _base64ToArrayBuffer(base64): the bytes atob gives
_base64ToArrayBuffer(base64) == atob(base64)

\* the key byte used at 0-based position i; 0 when the key has no bytes
keyByteAt(key, i) == IF key = <<>> THEN 0 ELSE key[(i % Len(key)) + 1]

_vigenereEncrypt(this, s) ==
    LET textBytes == TextEncoderEncode(s)
    IN  _arrayBufferToBase64([i \in 1..Len(textBytes) |->
            (textBytes[i] + keyByteAt(this.encryptionKey, i - 1)) % 256])

_vigenereDecrypt(this, s) ==
    LET encryptedBytes == _base64ToArrayBuffer(s)
    IN  IF encryptedBytes.kind # "ok" THEN encryptedBytes
        ELSE Ok(TextDecoderDecode([i \in 1..Len(encryptedBytes.val) |->
                (encryptedBytes.val[i] - keyByteAt(this.encryptionKey, i - 1) + 256) % 256]))

\* Array.prototype.join(sep) of a sequence of strings
joinWith(ss, sep) ==
    Flatten([i \in 1..Len(ss) |-> IF i = 1 THEN ss[i] ELSE <<sep>> \o ss[i]])

\* new TextEncoder().encode(this.encryptionKey): encryptionKey is a Uint8Array,
\* so what is encoded is its string form, the decimal bytes joined by ","
xorKeyBytes(this) ==
    TextEncoderEncode(joinWith(
        [i \in 1..Len(this.encryptionKey) |-> toDecimal(this.encryptionKey[i])], 44))

_xorEncrypt(this, s) ==
    LET textBytes == TextEncoderEncode(s)
        keyBytes == xorKeyBytes(this)
    IN  btoa([i \in 1..Len(textBytes) |-> Xor(textBytes[i], keyByteAt(keyBytes, i - 1))])

\* mutant of _xorDecrypt: the key bytes are the bytes of the key itself, not
\* those of the string form of the byte array
_xorDecrypt_RawKey(this, s) ==
    LET encryptedBytes == atob(s)
    IN  IF encryptedBytes.kind # "ok" THEN encryptedBytes
        ELSE Ok(TextDecoderDecode([i \in 1..Len(encryptedBytes.val) |->
                Xor(encryptedBytes.val[i], keyByteAt(this.encryptionKey, i - 1))]))

_xorDecrypt(this, s) ==
    LET encryptedBytes == atob(s)
        keyBytes == xorKeyBytes(this)
    IN  IF encryptedBytes.kind # "ok" THEN encryptedBytes
        ELSE Ok(TextDecoderDecode([i \in 1..Len(encryptedBytes.val) |->
                Xor(encryptedBytes.val[i], keyByteAt(keyBytes, i - 1))]))

\* mutant of _encryptROT47: 47 is added before the remainder and 33 after it
_encryptROT47_Plus47(this, s) ==
    LET f(c) == IF c >= 33 /\ c <= 126 THEN fromCharCode(((c + 47) % 94) + 33) ELSE c
    IN  Ok(MapChars(f, s))

_encryptROT47(this, s) ==
    LET f(c) == IF c >= 33 /\ c <= 126 THEN fromCharCode(33 + ((c + 14) % 94)) ELSE c
    IN  Ok(MapChars(f, s))

\* return this.encryptROT47(text): the engine has no property encryptROT47
_decryptROT47(this, s) == Throw("this.encryptROT47 is not a function")

_encryptAtbash(this, s) ==
    LET f(c) == IF IsLetter(c)
                THEN fromCharCode(letterBase(c) + (25 - (c - letterBase(c))))
                ELSE c
    IN  Ok(MapChars(f, s))

\* return this.encryptAtbash(text): the engine has no property encryptAtbash
_decryptAtbash(this, s) == Throw("this.encryptAtbash is not a function")

_encryptSubstitution(this, s) == Ok(MapChars(substitutionKey, s))

_decryptSubstitution(this, s) == Ok(MapChars(reverseSubstitutionKey, s))

_encryptBase64(this, s) == btoa(s)

_decryptBase64(this, s) == atob(s)

_encryptAsciiShift(this, s) ==
    LET f(c) == fromCharCode(c + Len(this.encryptionKey)) IN Ok(MapChars(f, s))

_decryptAsciiShift(this, s) ==
    LET f(c) == fromCharCode(c - Len(this.encryptionKey)) IN Ok(MapChars(f, s))

_encryptUnicodeShift(this, s) ==
    LET f(c) == fromCharCode(c + Len(this.encryptionKey)) IN Ok(MapChars(f, s))

_decryptUnicodeShift(this, s) ==
    LET f(c) == fromCharCode(c - Len(this.encryptionKey)) IN Ok(MapChars(f, s))

_encryptReversedCaesar(this, s) ==
    LET f(c) == IF IsLetter(c)
                THEN fromCharCode(
                        JsRem(25 - (c - letterBase(c)) + Len(this.encryptionKey), 26)
                        + letterBase(c))
                ELSE c
    IN  Ok(MapChars(f, s))

_decryptReversedCaesar(this, s) ==
    LET f(c) == IF IsLetter(c)
                THEN fromCharCode(
                        JsRem(25 - (c - letterBase(c)) - Len(this.encryptionKey) + 26, 26)
                        + letterBase(c))
                ELSE c
    IN  Ok(MapChars(f, s))

\* the pieces of s between the occurrences of sep (String.prototype.split)
split(s, sep) ==
    LET cuts == {i \in 1..Len(s) : s[i] = sep}
        bounds == <<0>> \o [k \in 1..Cardinality(cuts) |->
                      CHOOSE i \in cuts : Cardinality({j \in cuts : j <= i}) = k]
                  \o <<Len(s) + 1>>
    IN  [k \in 1..(Cardinality(cuts) + 1) |-> Slice(s, bounds[k] + 1, bounds[k + 1] - 1)]

_encryptNumeric(this, s) ==
    Ok(joinWith([i \in 1..Len(s) |-> toDecimal(s[i])], 45))

\* the white space parseInt skips at the start of its argument
WhiteSpace ==
    {9, 10, 11, 12, 13, 32, 160, 5760, 8232, 8233, 8239, 8287, 12288, 65279}
        \cup (8192..8202)

\* the value of a digit in the given radix; -1 when c is no such digit
digitValue(c, radix) ==
    IF c >= 48 /\ c <= 57 THEN c - 48
    ELSE IF radix = 16 /\ c >= 97 /\ c <= 102 THEN c - 97 + 10
    ELSE IF radix = 16 /\ c >= 65 /\ c <= 70 THEN c - 65 + 10
    ELSE -1

RECURSIVE digitsValue(_, _, _, _)
\* the value of the longest run of digits of s from i on, after acc
digitsValue(s, i, radix, acc) ==
    IF i > Len(s) \/ digitValue(s[i], radix) = -1 THEN acc
    ELSE digitsValue(s, i + 1, radix, acc * radix + digitValue(s[i], radix))

\* String.fromCharCode(parseInt(num)): leading white space and a sign are
\* skipped, "0x" selects radix 16, the digits end at the first other code
\* unit, and NaN (no digit at all) gives the code unit 0
fromCharCodeParseInt(num) ==
    LET blank == {i \in 1..Len(num) : \A j \in 1..i : num[j] \in WhiteSpace}
        t == Slice(num, Cardinality(blank) + 1, Len(num))
        neg == t # <<>> /\ t[1] = 45
        u == IF t # <<>> /\ t[1] \in {43, 45} THEN Tail(t) ELSE t
        hex == Len(u) >= 2 /\ u[1] = 48 /\ u[2] \in {120, 88}
        v == IF hex THEN Slice(u, 3, Len(u)) ELSE u
        radix == IF hex THEN 16 ELSE 10
    IN  IF v = <<>> \/ digitValue(v[1], radix) = -1 THEN 0
        ELSE fromCharCode((IF neg THEN -1 ELSE 1) * digitsValue(v, 1, radix, 0))

_decryptNumeric(this, numbers) ==
    LET parts == split(numbers, 45)
    IN  Ok([i \in 1..Len(parts) |-> fromCharCodeParseInt(parts[i])])

\* ------------------------------------------------------------------ process

_processCycle(this, s, mode) ==
    LET enc == mode = "encrypt"
        alg == this.algorithm
    IN  CASE alg = "caesar" -> IF enc THEN _caesarEncrypt(this, s) ELSE _caesarDecrypt(this, s)
          [] alg = "vigenere" ->
                IF enc THEN _vigenereEncrypt(this, s) ELSE _vigenereDecrypt(this, s)
          [] alg = "xor" -> IF enc THEN _xorEncrypt(this, s) ELSE _xorDecrypt(this, s)
          [] alg = "ROT47" -> IF enc THEN _encryptROT47(this, s) ELSE _decryptROT47(this, s)
          [] alg = "Atbash" -> IF enc THEN _encryptAtbash(this, s) ELSE _decryptAtbash(this, s)
          [] alg = "Substitution" ->
                IF enc THEN _encryptSubstitution(this, s) ELSE _decryptSubstitution(this, s)
          [] alg = "Base64" -> IF enc THEN _encryptBase64(this, s) ELSE _decryptBase64(this, s)
          [] alg = "ASCII" ->
                IF enc THEN _encryptAsciiShift(this, s) ELSE _decryptAsciiShift(this, s)
          [] alg = "Affine" -> IF enc THEN _encryptAffine(this, s) ELSE _decryptAffine(this, s)
          [] alg = "Unicode Shift" ->
                IF enc THEN _encryptUnicodeShift(this, s) ELSE _decryptUnicodeShift(this, s)
          [] alg = "Numeric" ->
                IF enc THEN _encryptNumeric(this, s) ELSE _decryptNumeric(this, s)
          [] alg = "Reversed Caesar" ->
                IF enc THEN _encryptReversedCaesar(this, s)
                ELSE _decryptReversedCaesar(this, s)
          [] alg = "ROT13" -> IF enc THEN _encryptROT13(this, s) ELSE _decryptROT13(this, s)
          [] alg = "ROT18" -> IF enc THEN _encryptROT18(this, s) ELSE _decryptROT18(this, s)
          [] alg = "ROT25" -> IF enc THEN _encryptROT25(this, s) ELSE _decryptROT25(this, s)
          [] alg = "ROT30" -> IF enc THEN _encryptROT30(this, s) ELSE _decryptROT30(this, s)
          [] alg = "XOR Pro" ->
                IF enc THEN _encryptXORPro(this, s, this.keyOffsets)
                ELSE _decryptXORPro(this, s, this.keyOffsets)
          [] alg = "Affine Pro" ->
                IF enc THEN _encryptAffinePro(this, s) ELSE _decryptAffinePro(this, s)
          [] alg = "Substitution Pro" ->
                IF enc THEN _encryptSubstitutionPro(this, s)
                ELSE _decryptSubstitutionPro(this, s)
          [] OTHER -> IF enc THEN _TughraEncrypt(this, s) ELSE _TughraDecrypt(this, s)

\* toBase(text): an exception of the encoding is caught and text returned;
\* when the encoding does not end, val is the text the catch clause returns
\* if the runtime stops the loop with an exception
toBase(this, s) ==
    LET bytes == encodeURIComponentUnescape(s)
        encoded == encode(this.baseLibrary.alphabet, this.baseLibrary.chunkSize,
                          bytes.val)
    IN  IF s = <<>> THEN Ok(s)
        ELSE IF bytes.kind # "ok" THEN Ok(s)
        ELSE IF encoded.kind = "hang" THEN [encoded EXCEPT !.val = s]
        ELSE encoded

\* fromBase(text): an exception of the decoding is caught and text returned
fromBase(this, s) ==
    LET bytes == decode(this.baseLibrary.alphabet, this.baseLibrary.chunkSize, s)
    IN  IF s = <<>> THEN Ok(s)
        ELSE IF bytes.kind # "ok" THEN Ok(s)
        ELSE IF decodeURIComponentEscape(bytes.val).kind # "ok" THEN Ok(s)
        ELSE decodeURIComponentEscape(bytes.val)

RECURSIVE cycleLoop(_, _, _)

\* mutant of cycleLoop: every cycle takes the text process was given, not the
\* output of the cycle before
cycleLoop_OnInput(this, s, cycles) ==
    IF cycles <= 0 THEN Ok(s) ELSE _processCycle(this, s, this.mode)

\* for (let i = 0; i < cycles; i++) resultText = this._processCycle(resultText, this.mode)
cycleLoop(this, s, cycles) ==
    IF cycles <= 0 THEN Ok(s)
    ELSE LET r == _processCycle(this, s, this.mode)
         IN  IF r.kind # "ok" THEN r ELSE cycleLoop(this, r.val, cycles - 1)

\* mutant of effectiveCycles: the cycle count of the caller is kept
effectiveCycles_AsPassed(this, cycles) == cycles

\* the cycle count process runs: 1 for xor, ROT47 and ROT13
effectiveCycles(this, cycles) ==
    IF this.algorithm \in {"xor", "ROT47", "ROT13"} THEN 1 ELSE cycles

\* mutant of process: base decoding comes after the cycles, base encoding
\* before them
process_WrappingSwapped(this, s, cycles) ==
    LET input == IF this.useBaseEncoding /\ this.mode = "encrypt"
                 THEN toBase(this, s) ELSE Ok(s)
        resultText == cycleLoop(this, input.val, effectiveCycles(this, cycles))
    IN  IF input.kind # "ok" THEN input
        ELSE IF resultText.kind # "ok" THEN resultText
        ELSE IF this.useBaseEncoding /\ this.mode = "decrypt"
             THEN fromBase(this, resultText.val)
        ELSE resultText

process(this, s, cycles) ==
    LET input == IF this.useBaseEncoding /\ this.mode = "decrypt"
                 THEN fromBase(this, s) ELSE Ok(s)
        resultText == cycleLoop(this, input.val, effectiveCycles(this, cycles))
    IN  IF input.kind # "ok" THEN input
        ELSE IF resultText.kind # "ok" THEN resultText
        ELSE IF this.useBaseEncoding /\ this.mode = "encrypt"
             THEN toBase(this, resultText.val)
        ELSE resultText

\* setAlgorithm(algorithm)
setAlgorithm(this, algorithm) == [this EXCEPT !.algorithm = algorithm]

\* ------------------------------------------------------------------- inputs

\* the largest cycle count a caller passes
MaxCycles == 2

\* the longest result a caller feeds into a further call
MaxInput == 128

\* "Hello, World!"
Hello == <<72, 101, 108, 108, 111, 44, 32, 87, 111, 114, 108, 100, 33>>

\* every printable ASCII character "!".."~": all letters, the digits, "-"
Printable == [i \in 1..94 |-> 32 + i]

\* the texts a caller passes: the empty text, "A", "a-1", "Hello, World!", all
\* printable ASCII, a text with U+FFFF, Latin-1 and other code units, a text
\* that starts with U+FEFF, a lone surrogate and a surrogate pair
Texts ==
    {<<>>, <<65>>, <<97, 45, 49>>, Hello, Printable, <<65535, 233, 8364, 65>>,
     <<65279, 65>>, <<55357>>, <<55357, 56832>>}

\* a key of 27 characters, "abcdefghijklmnopqrstuvwxyz{"
LongKey == [i \in 1..27 |-> 96 + i]

\* the keys: "", "abc", "aab", "12345678" and the long one
Keys ==
    {<<>>, <<97, 98, 99>>, <<97, 97, 98>>, <<49, 50, 51, 52, 53, 54, 55, 56>>, LongKey}

\* "0123456789abcdef"
HexCharset == <<48, 49, 50, 51, 52, 53, 54, 55, 56, 57, 97, 98, 99, 100, 101, 102>>

\* the base alphabets: none given (the default one), hexadecimal, "xyz", "x", "xx"
Charsets == {<<>>, HexCharset, <<120, 121, 122>>, <<120>>, <<120, 120>>}

\* the variant identifiers of _processCycle, and one it does not know
Algorithms ==
    {"default", "caesar", "vigenere", "xor", "ROT47", "Atbash", "Substitution",
     "Base64", "ASCII", "Affine", "Unicode Shift", "Numeric", "Reversed Caesar",
     "ROT13", "ROT18", "ROT25", "ROT30", "XOR Pro", "Affine Pro",
     "Substitution Pro", "nonexistent"}

Modes == {"encrypt", "decrypt"}

\* the argument lists a caller constructs an engine with: every variant and key
\* without base wrapping, and every alphabet with base wrapping
ConstructorArgs ==
    [mode : Modes, baseCharset : {<<>>}, algorithm : Algorithms,
     encryptionKey : Keys, useBaseEncoding : {FALSE}]
    \cup
    [mode : Modes, baseCharset : Charsets, algorithm : {"default", "caesar"},
     encryptionKey : {<<97, 98, 99>>, <<49, 50, 51, 52, 53, 54, 55, 56>>},
     useBaseEncoding : {TRUE}]

NoArgs ==
    [mode |-> "", baseCharset |-> <<>>, algorithm |-> "", encryptionKey |-> <<>>,
     useBaseEncoding |-> FALSE]

\* ------------------------------------------------------------------ actions

Init ==
    /\ args = NoArgs
    /\ eng = NoCall
    /\ text = <<>>
    /\ out = NoCall
    /\ log = <<>>

\* new Tughra(...): a fresh engine, or the exception of the constructor. A
\* run starts with it; constructing again later would start the same runs anew
Construct ==
    \E a \in ConstructorArgs :
        /\ eng.kind = "none"
        /\ args' = a
        /\ eng' = Tughra(a.mode, a.baseCharset, a.algorithm, a.encryptionKey,
                         a.useBaseEncoding)
        /\ text' = <<>>
        /\ out' = NoCall
        /\ log' = <<>>

\* tughra.setAlgorithm(algorithm) on the current engine; after a call of
\* process it leads to the states it leads to before one, and after an
\* assignment of a to engines that differ from the ones the opposite order
\* gives only in a field their variant does not read
SetAlgorithm ==
    \E algorithm \in Algorithms :
        /\ eng.kind = "ok"
        /\ log = <<>>
        /\ eng.val.a = AffineA
        /\ args' = [args EXCEPT !.algorithm = algorithm]
        /\ eng' = Ok(setAlgorithm(eng.val, algorithm))
        /\ text' = <<>>
        /\ out' = NoCall
        /\ log' = <<>>

\* the values a caller gives the field a of an Affine engine: 4, which has no
\* inverse modulo 26, and the constructor's 5
AffineKeys == {4, AffineA}

\* tughra.a = a: the caller assigns the multiplicative key of an engine for an
\* Affine variant; nothing is computed or checked on the assignment
AssignA ==
    \E a \in AffineKeys :
        /\ eng.kind = "ok"
        /\ log = <<>>
        /\ eng.val.algorithm \in {"Affine", "Affine Pro"}
        /\ a # eng.val.a
        /\ eng' = Ok([eng.val EXCEPT !.a = a])
        /\ UNCHANGED <<args, text, out, log>>

\* what a call of process with the outcome r ends in. A loop without an end
\* of its own runs until the runtime stops it: with the exception of a string
\* that passed the longest length, which toBase catches to return the text it
\* was given, or by ending the program for lack of memory, and then the call
\* never returns
Outcomes(r) == IF r.kind = "hang" THEN {Hang, Ok(r.val)} ELSE {r}

\* the same for a call of the library's encode, where nothing catches the
\* exception
LibraryOutcomes(r) ==
    IF r.kind = "hang" THEN {Hang, Throw("Invalid string length")} ELSE {r}

\* the entry of log for a call process(., cycles) on the current engine
Call(cycles) ==
    [mode |-> eng.val.mode, algorithm |-> eng.val.algorithm,
     useBaseEncoding |-> eng.val.useBaseEncoding, cycles |-> cycles]

\* mutant of Process: a call that throws leaves the engine in encrypt mode
Process_ResetsMode ==
    \E t \in Texts, cycles \in 1..MaxCycles :
        /\ eng.kind = "ok"
        /\ log = <<>>
        /\ text' = t
        /\ out' \in Outcomes(process(eng.val, t, cycles))
        /\ log' = <<Call(cycles)>>
        /\ eng' = IF out'.kind = "throw" THEN Ok([eng.val EXCEPT !.mode = "encrypt"])
                  ELSE eng
        /\ UNCHANGED args

\* tughra.process(t, cycles) on a text of the caller's
Process ==
    \E t \in Texts, cycles \in 1..MaxCycles :
        /\ eng.kind = "ok"
        /\ log = <<>>
        /\ text' = t
        /\ out' \in Outcomes(process(eng.val, t, cycles))
        /\ log' = <<Call(cycles)>>
        /\ UNCHANGED <<args, eng>>

\* tughra.process(result, cycles) on the result of the call before
ProcessResult ==
    \E cycles \in 1..MaxCycles :
        /\ eng.kind = "ok"
        /\ Len(log) = 1
        /\ out.kind = "ok"
        /\ Len(out.val) <= MaxInput
        /\ out' \in Outcomes(process(eng.val, out.val, cycles))
        /\ log' = Append(log, Call(cycles))
        /\ UNCHANGED <<args, eng, text>>

\* the caller builds an engine configured like the current one (constructed
\* with its arguments, and given its field a), for the other mode, to take
\* the result of the call before
ConstructPeer ==
    /\ eng.kind = "ok"
    /\ Len(log) = 1
    /\ out.kind = "ok"
    /\ args' = [args EXCEPT !.mode = IF eng.val.mode = "encrypt" THEN "decrypt"
                                     ELSE "encrypt"]
    /\ LET peer == Tughra(args'.mode, args.baseCharset, args.algorithm,
                          args.encryptionKey, args.useBaseEncoding)
       IN  eng' = IF peer.kind = "ok" THEN Ok([peer.val EXCEPT !.a = eng.val.a])
                  ELSE peer
    /\ UNCHANGED <<text, out, log>>

Next ==
    \/ Construct
    \/ SetAlgorithm
    \/ AssignA
    \/ Process
    \/ ProcessResult
    \/ ConstructPeer

Spec == Init /\ [][Next]_vars

\* ----------------------------------------------------- the library on its own
\* The library baseEncodeDecode(alphabet) returns, called directly: args holds
\* the alphabet, eng the library, text a byte string, log the calls made.

\* the longest byte string handed to the library
MaxBytes == 2

\* the bytes the strings are made of: 0x00, 0xAB, 0xC0, 0xFF
ByteValues == {0, 171, 192, 255}

ByteTexts == UNION {[1..n -> ByteValues] : n \in 0..MaxBytes}

\* the alphabets: "xy", "xyz", hexadecimal, the default one, "x" and "xx"
Alphabets ==
    {<<120, 121>>, <<120, 121, 122>>, HexCharset, DefaultCharset, <<120>>, <<120, 120>>}

InitCodec ==
    /\ args \in [alphabet : Alphabets]
    /\ eng = Ok(baseEncodeDecode(args.alphabet))
    /\ text \in ByteTexts
    /\ out = NoCall
    /\ log = <<>>

\* library.encode(text)
LibraryEncode ==
    /\ log = <<>>
    /\ out' \in LibraryOutcomes(encode(eng.val.alphabet, eng.val.chunkSize, text))
    /\ log' = <<"encode">>
    /\ UNCHANGED <<args, eng, text>>

\* library.decode(result) on what encode returned
LibraryDecode ==
    /\ log = <<"encode">>
    /\ out.kind = "ok"
    /\ out' = decode(eng.val.alphabet, eng.val.chunkSize, out.val)
    /\ log' = <<"encode", "decode">>
    /\ UNCHANGED <<args, eng, text>>

NextCodec ==
    \/ LibraryEncode
    \/ LibraryDecode

SpecCodec == InitCodec /\ [][NextCodec]_vars

\* --------------------------------------------------------- key generation
\* generateKey of class TughraLibrary, called on its own: args holds the
\* arguments, eng the library object, out the outcome, log the calls made.

\* the entries of this.unicodeGroups the model keeps, of its 114: the first
\* one, the last one of the Basic Multilingual Plane and the first one above it
unicodeGroups ==
    <<[name |-> "Numbers", start |-> 48, end |-> 57],
      [name |-> "Specials", start |-> 65520, end |-> 65535],
      [name |-> "Linear B Syllabary", start |-> 65536, end |-> 65663]>>

\* new TughraLibrary()
TughraLibrary == [unicodeGroups |-> unicodeGroups]

\* this.unicodeGroups.find(g => g.name === trimmedGroupName), as the set of
\* the positions of the first such entry: empty when find gives undefined
find(groups, name) ==
    {i \in 1..Len(groups) :
        groups[i].name = name /\ \A j \in 1..(i - 1) : groups[j].name # name}

\* the values Math.floor(Math.random() * n) takes in the model: the least, a
\* middle and the greatest one
RandomIndex(n) == {0, n \div 2, n - 1}

\* the array characters of one turn of the loop: String.fromCharCode(j) for
\* every j of the group's range
characters(group) ==
    [k \in 1..(group.end - group.start + 1) |-> fromCharCode(group.start + k - 1)]

\* the arrays generateKey(cycles, groupNames) can return, or the exception it
\* throws for the first name that is not in the catalog; groupNames is the
\* list of the trimmed names between the commas
generateKey(this, cycles, groupNames) ==
    LET invalid == {k \in 1..Len(groupNames) : find(this.unicodeGroups, groupNames[k]) = {}}
        storedGroups == [k \in 1..Len(groupNames) |->
            this.unicodeGroups[CHOOSE i \in find(this.unicodeGroups, groupNames[k]) : TRUE]]
        turn == UNION {{characters(storedGroups[g + 1])[r + 1] :
                            r \in RandomIndex(storedGroups[g + 1].end
                                              - storedGroups[g + 1].start + 1)} :
                        g \in RandomIndex(Len(storedGroups))}
    IN  IF invalid # {}
        THEN {Throw("Invalid Unicode group name: "
                    \o groupNames[CHOOSE k \in invalid : \A j \in invalid : k <= j])}
        ELSE {Ok(encryptionArray) : encryptionArray \in [1..cycles -> turn]}

\* the greatest number of characters asked for
MaxKeyCount == 3

\* the lists of group names asked for; "Klingon" is not in the catalog
GroupNames ==
    {<<"Numbers">>, <<"Specials">>, <<"Linear B Syllabary">>,
     <<"Numbers", "Specials">>, <<"Numbers", "Linear B Syllabary">>,
     <<"Numbers", "Specials", "Linear B Syllabary">>,
     <<"Klingon">>, <<"Numbers", "Klingon">>, <<"">>}

InitKey ==
    /\ args \in [cycles : 0..MaxKeyCount, groupNames : GroupNames]
    /\ eng = Ok(TughraLibrary)
    /\ text = <<>>
    /\ out = NoCall
    /\ log = <<>>

\* library.generateKey(cycles, groupNames)
GenerateKey ==
    /\ log = <<>>
    /\ out' \in generateKey(eng.val, args.cycles, args.groupNames)
    /\ log' = <<"generateKey">>
    /\ UNCHANGED <<args, eng, text>>

NextKey == GenerateKey

SpecKey == InitKey /\ [][NextKey]_vars

\* ------------------------------------------------------------------ worker
\* The worker of worker.js: args is the queue of the request messages posted
\* to it and not yet handled, text the requests its handler was run for, out
\* the response messages it posted, log how each run of the handler ended,
\* eng the outcome of the latest construction of an engine. In a response a
\* field that is null is <<>>, and a field with the value v is <<v>>.

\* self.postMessage({ result: resultText, error: null })
ResultMessage(resultText) == [result |-> <<resultText>>, error |-> <<>>]

\* self.postMessage({ result: null, error: error.message })
ErrorMessage(message) == [result |-> <<>>, error |-> <<message>>]

\* mutant of onmessage: there is no try and no catch, an exception leaves the
\* handler
onmessage_NoCatch(data) ==
    LET tughra == Tughra(data.mode, data.baseCharset, data.algorithm,
                         data.encryptionKey, data.useBaseEncoding)
        results == IF tughra.kind = "ok"
                   THEN Outcomes(process(tughra.val, data.text, data.cycles))
                   ELSE {tughra}
    IN  {[engine |-> tughra,
          posted |-> IF r.kind = "ok" THEN <<ResultMessage(r.val)>> ELSE <<>>,
          end |-> IF r.kind = "ok" THEN "returned"
                  ELSE IF r.kind = "throw" THEN "uncaught" ELSE "running"] :
         r \in results}

\* self.onmessage for the message data: the ways a run of the handler goes,
\* each with the engine it constructed, the responses it posted and its end:
\* it returned, an exception left it ("uncaught"), or it is still in a loop
\* that has no end of its own ("running")
onmessage(data) ==
    LET tughra == Tughra(data.mode, data.baseCharset, data.algorithm,
                         data.encryptionKey, data.useBaseEncoding)
        results == IF tughra.kind = "ok"
                   THEN Outcomes(process(tughra.val, data.text, data.cycles))
                   ELSE {tughra}
    IN  {[engine |-> tughra,
          posted |-> IF r.kind = "ok" THEN <<ResultMessage(r.val)>>
                     ELSE IF r.kind = "throw" THEN <<ErrorMessage(r.msg)>>
                     ELSE <<>>,
          end |-> IF r.kind = "hang" THEN "running" ELSE "returned"] :
         r \in results}

\* the most requests posted to one worker
MaxRequests == 2

Request(t, cycles, baseCharset, mode, useBaseEncoding, algorithm, encryptionKey) ==
    [text |-> t, cycles |-> cycles, baseCharset |-> baseCharset, mode |-> mode,
     useBaseEncoding |-> useBaseEncoding, algorithm |-> algorithm,
     encryptionKey |-> encryptionKey]

\* the requests posted: ones that give a result (an empty one among them), one
\* whose construction throws, one whose process throws, and ones with a
\* one-symbol alphabet
Requests ==
    {Request(<<65>>, 1, <<>>, "encrypt", FALSE, "default", <<97, 98, 99>>),
     Request(<<>>, 1, <<>>, "encrypt", FALSE, "default", <<97, 98, 99>>),
     Request(Hello, 2, <<>>, "encrypt", FALSE, "caesar", <<49, 50, 51, 52, 53, 54, 55, 56>>),
     Request(Hello, 1, HexCharset, "encrypt", TRUE, "default", <<97, 98, 99>>),
     Request(<<65>>, 1, <<>>, "encrypt", FALSE, "ROT13", <<>>),
     Request(<<65>>, 1, <<>>, "decrypt", FALSE, "ROT47", <<49, 50, 51, 52, 53, 54, 55, 56>>),
     Request(<<65>>, 1, <<120>>, "encrypt", TRUE, "default", <<97, 98, 99>>),
     Request(<<65>>, 1, <<120>>, "decrypt", TRUE, "default", <<97, 98, 99>>)}

InitWorker ==
    /\ args = <<>>
    /\ eng = NoCall
    /\ text = <<>>
    /\ out = <<>>
    /\ log = <<>>

\* worker.postMessage(request) on the page: the request joins the queue
PostRequest ==
    \E request \in Requests :
        /\ Len(args) + Len(text) < MaxRequests
        /\ args' = Append(args, request)
        /\ UNCHANGED <<eng, text, out, log>>

\* the worker runs self.onmessage for the oldest request of the queue, which
\* it does when no run of the handler is going on
OnMessage ==
    /\ args # <<>>
    /\ IF log = <<>> THEN TRUE ELSE log[Len(log)] # "running"
    /\ \E run \in onmessage(Head(args)) :
        /\ args' = Tail(args)
        /\ text' = Append(text, Head(args))
        /\ eng' = run.engine
        /\ out' = out \o run.posted
        /\ log' = Append(log, run.end)

NextWorker ==
    \/ PostRequest
    \/ OnMessage

SpecWorker == InitWorker /\ [][NextWorker]_vars

\* ------------------------------------------------------------------- claims

\* two calls were made, the first by an encrypting engine and the second, on
\* the first one's result and with the same cycle count, by a decrypting
\* engine that is configured like it
EncryptedThenDecrypted ==
    /\ Len(log) = 2
    /\ log[1].mode = "encrypt"
    /\ log[2].mode = "decrypt"
    /\ log[1].cycles = log[2].cycles

\* two calls were made by one encrypting engine, the second on the first one's result
EncryptedTwice ==
    /\ Len(log) = 2
    /\ log[1].mode = "encrypt"
    /\ log[2].mode = "encrypt"

\* a text every conversion to and from UTF-8 keeps: no unpaired surrogate and
\* no U+FEFF at its start
WellFormed(s) == ~HasLoneSurrogate(s) /\ (s = <<>> \/ s[1] # 65279)

\* C1: cycle law. For every variant, key and cycle count n >= 1, decrypting
\* with n cycles what an identically configured engine encrypted with n
\* cycles returns the original text (stated here for the well-formed texts,
\* the ones no conversion of the code alters).
C1_CycleLaw == (EncryptedThenDecrypted /\ WellFormed(text)) => out = Ok(text)

\* whether a sequence has no element twice
DuplicateFree(s) == \A i, j \in 1..Len(s) : s[i] = s[j] => i = j

\* C2: base codec round trip. For every duplicate-free alphabet of two or more
\* symbols and every byte string x, decode(encode(x)) returns x.
C2_CodecRoundTrip ==
    (/\ log = <<"encode", "decode">>
     /\ DuplicateFree(args.alphabet)
     /\ Len(args.alphabet) >= 2)
    => out = Ok(text)

\* C3: the default (Tughra) variant restores the text. For every non-empty key
\* and cycle count, decrypting the encrypted text gives the text back, also
\* when a code unit plus its offset passes 0xFFFF; and key "abc" moves "A" by 97.
C3_TughraRoundTrip ==
    /\ (/\ EncryptedThenDecrypted
        /\ log[1].algorithm = "default"
        /\ ~log[1].useBaseEncoding)
       => out = Ok(text)
    /\ (/\ Len(log) = 1
        /\ log[1] = [mode |-> "encrypt", algorithm |-> "default",
                     useBaseEncoding |-> FALSE, cycles |-> 1]
        /\ args.encryptionKey = <<97, 98, 99>>
        /\ text = <<65>>)
       => out = Ok(<<65 + 97>>)

\* a Tughra round trip in which a code unit of the text plus its offset passed 0xFFFF
C3_Witness ==
    /\ EncryptedThenDecrypted
    /\ log[1].algorithm = "default"
    /\ ~log[1].useBaseEncoding
    /\ eng.kind = "ok"
    /\ \E i \in 1..Len(text) :
            text[i] + eng.val.keyOffsets[((i - 1) % Len(eng.val.keyOffsets)) + 1] > 65535
    /\ out = Ok(text)

\* one call with one cycle was made by an engine of the default variant
\* without base wrapping
OneTughraCycle ==
    /\ Len(log) = 1
    /\ log[1].algorithm = "default"
    /\ ~log[1].useBaseEncoding
    /\ log[1].cycles = 1

\* what one Tughra cycle gives when the offsets are those of the sequence key:
\* added at each position on encode, subtracted on decode, modulo 2^16
ShiftedBy(key, mode) ==
    Ok([i \in 1..Len(text) |->
        IF mode = "encrypt"
        THEN (text[i] + key[((i - 1) % Len(key)) + 1]) % 65536
        ELSE (text[i] - key[((i - 1) % Len(key)) + 1]) % 65536])

\* C4 as stated: one Tughra cycle adds (encode) or subtracts (decode) at
\* position i the code of key[i mod key.length], key being the key the caller
\* supplied to the constructor.
C4_SuppliedKeyOffsets ==
    OneTughraCycle => out = ShiftedBy(args.encryptionKey, log[1].mode)

RECURSIVE FirstOccurrences(_)
\* the elements of a sequence in the order of their first occurrence, each once
FirstOccurrences(s) ==
    IF s = <<>> THEN <<>>
    ELSE LET r == FirstOccurrences(SubSeq(s, 1, Len(s) - 1))
         IN  IF \E i \in 1..Len(r) : r[i] = s[Len(s)] THEN r ELSE Append(r, s[Len(s)])

\* C4 amended: the offsets are those of the supplied key with its repeated
\* characters removed (each character kept where it first occurs), the sum
\* and the difference taken modulo 2^16.
C4_DistinctKeyOffsets ==
    OneTughraCycle => out = ShiftedBy(FirstOccurrences(args.encryptionKey), log[1].mode)

\* one Tughra encode cycle under key "aab" on a text longer than the key's
\* distinct characters
C4_Witness ==
    /\ OneTughraCycle
    /\ log[1].mode = "encrypt"
    /\ args.encryptionKey = <<97, 97, 98>>
    /\ text = Hello
    /\ out.kind = "ok"
    /\ out.val[2] = 101 + 98

\* "Uryyb, Jbeyq!"
Uryyb == <<85, 114, 121, 121, 98, 44, 32, 74, 98, 101, 121, 113, 33>>

\* C5: ROT13 and ROT47 are involutions. Encoding the encoding of a text gives
\* the text; ROT13 maps "Hello, World!" to "Uryyb, Jbeyq!".
C5_RotInvolution ==
    /\ (/\ EncryptedTwice
        /\ log[1].algorithm \in {"ROT13", "ROT47"}
        /\ ~log[1].useBaseEncoding)
       => out = Ok(text)
    /\ (/\ Len(log) = 1
        /\ log[1].mode = "encrypt"
        /\ log[1].algorithm = "ROT13"
        /\ ~log[1].useBaseEncoding
        /\ text = Hello)
       => out = Ok(Uryyb)

\* ROT13 was applied twice to "Hello, World!"
C5_Witness ==
    /\ EncryptedTwice
    /\ log[1].algorithm = "ROT13"
    /\ ~log[1].useBaseEncoding
    /\ text = Hello
    /\ out = Ok(Hello)

\* C6: ROT47 and Atbash are symmetric. In decrypt mode process applies the
\* transform of encrypt mode, so decrypting the encryption of a text gives
\* the text.
C6_SymmetricDecrypt ==
    /\ (/\ Len(log) = 1
        /\ log[1].mode = "decrypt"
        /\ log[1].algorithm \in {"ROT47", "Atbash"}
        /\ ~log[1].useBaseEncoding)
       => out = process([eng.val EXCEPT !.mode = "encrypt"], text, log[1].cycles)
    /\ (/\ EncryptedThenDecrypted
        /\ log[1].algorithm \in {"ROT47", "Atbash"}
        /\ ~log[1].useBaseEncoding)
       => out = Ok(text)

\* C7 as stated: one encode pass of Substitution and of Substitution Pro is an
\* involution.
C7_SubstitutionInvolution ==
    (/\ EncryptedTwice
     /\ log[1].algorithm \in {"Substitution", "Substitution Pro"}
     /\ ~log[1].useBaseEncoding
     /\ log[1].cycles = 1
     /\ log[2].cycles = 1)
    => out = Ok(text)

\* C7 amended: the table is a bijection on the letters that is not its own
\* inverse; the decode pass, which uses the reversed table, undoes the encode
\* pass.
C7_SubstitutionRoundTrip ==
    (/\ EncryptedThenDecrypted
     /\ log[1].algorithm \in {"Substitution", "Substitution Pro"}
     /\ ~log[1].useBaseEncoding)
    => out = Ok(text)

\* every printable character was encoded by Substitution and decoded again
C7_Witness ==
    /\ EncryptedThenDecrypted
    /\ log[1].algorithm = "Substitution"
    /\ ~log[1].useBaseEncoding
    /\ text = Printable
    /\ out = Ok(Printable)

C9_ReversedCaesarRoundTrip ==
    (/\ EncryptedThenDecrypted
     /\ log[1].algorithm = "Reversed Caesar"
     /\ ~log[1].useBaseEncoding
     /\ Len(args.encryptionKey) >= 8)
    => out = Ok(text)

\* C10: for Affine and Affine Pro (a = 5, b = 8, m = 26) the decode pass undoes
\* the encode pass, for upper-case and for lower-case letters.
C10_AffineRoundTrip ==
    (/\ EncryptedThenDecrypted
     /\ log[1].algorithm \in {"Affine", "Affine Pro"}
     /\ eng.val.a = AffineA /\ eng.val.b = AffineB /\ eng.val.m = AffineM
     /\ ~log[1].useBaseEncoding)
    => out = Ok(text)

\* every printable character, the letters of both cases among them, was
\* encoded by Affine Pro and decoded again
C10_Witness ==
    /\ EncryptedThenDecrypted
    /\ log[1].algorithm = "Affine Pro"
    /\ ~log[1].useBaseEncoding
    /\ eng.val.a = AffineA
    /\ text = Printable
    /\ out = Ok(Printable)

\* the variants process names when it sets the cycle count
CycleInsensitive == {"xor", "ROT47", "ROT13"}

\* one call of process was made, and the engine is still the one that made it
CalledOnce == Len(log) = 1 /\ eng.kind = "ok" /\ eng.val.mode = log[1].mode

\* C11: for xor, ROT47 and ROT13, process ignores the cycle count the caller
\* passes and runs one transform cycle: process(t, n) is what process(t, 1) is,
\* and it is the result of one call of _processCycle.
C11_OneCycleForced ==
    (/\ CalledOnce
     /\ log[1].algorithm \in CycleInsensitive
     /\ ~log[1].useBaseEncoding)
    => /\ out = process(eng.val, text, 1)
       /\ out = _processCycle(eng.val, text, eng.val.mode)

\* ROT13 was asked for two cycles on "Hello, World!" and returned "Uryyb,
\* Jbeyq!", the result of one
C11_Witness ==
    /\ Len(log) = 1
    /\ log[1].algorithm = "ROT13"
    /\ log[1].cycles = 2
    /\ ~log[1].useBaseEncoding
    /\ text = Hello
    /\ out = Ok(Uryyb)

\* whether one encode pass of the engine's variant is an involution under its
\* key: applied twice, it gives every text back
Involutive(this) ==
    \A t \in Texts :
        LET once == _processCycle(this, t, "encrypt")
        IN  once.kind = "ok" /\ _processCycle(this, once.val, "encrypt") = Ok(t)

\* C12: for every variant whose encode pass is an involution under the key
\* (XOR Pro and Atbash as well as ROT47 and ROT13), process in encrypt mode
\* runs one cycle whatever count is asked for, so process(t, n) is
\* process(t, 1) and an even n does not return the input text.
C12_InvolutionOneCycle ==
    (/\ CalledOnce
     /\ log[1].mode = "encrypt"
     /\ ~log[1].useBaseEncoding
     /\ Involutive(eng.val))
    => out = _processCycle(eng.val, text, "encrypt")

\* the engine that made the first call
FirstEngine == [eng.val EXCEPT !.mode = log[1].mode]

\* a call of process was made, the engine is still the one that made the last
\* call, and LastInput is the text that call was given: the caller's text, or
\* the result of the first call
Called == Len(log) >= 1 /\ eng.kind = "ok" /\ eng.val.mode = log[Len(log)].mode

LastInput ==
    IF Len(log) = 1 THEN text ELSE process(FirstEngine, text, log[1].cycles).val

\* the transform cycles process runs on s, base wrapping left aside
TransformCycles(this, s, cycles) == cycleLoop(this, s, effectiveCycles(this, cycles))

\* an outcome that is no value, or the base decoding of its value
DecodedAfter(this, r) == IF r.kind # "ok" THEN r ELSE fromBase(this, r.val)

\* C13: ordering of base wrapping in process. With useBaseEncoding and mode
\* decrypt the input is base-decoded before the first cycle and nothing is
\* decoded after a cycle; with useBaseEncoding and mode encrypt the output of
\* the last cycle is base-encoded once and nothing is encoded before a cycle;
\* without useBaseEncoding the result is that of the cycles alone.
C13_BaseWrappingOrder ==
    Called =>
        LET this == eng.val
            n == log[Len(log)].cycles
        IN  /\ (this.useBaseEncoding /\ this.mode = "decrypt")
                => out = TransformCycles(this, fromBase(this, LastInput).val, n)
            /\ (this.useBaseEncoding /\ this.mode = "encrypt")
                => LET last == TransformCycles(this, LastInput, n)
                   IN  out \in Outcomes(IF last.kind = "ok" THEN toBase(this, last.val)
                                        ELSE last)
            /\ ~this.useBaseEncoding => out = TransformCycles(this, LastInput, n)

\* a decrypting engine with base wrapping took the base-encoded result of an
\* encrypting one for "Hello, World!" and returned "Hello, World!": the
\* cycles' result on the decoded text, which differs from what decoding after
\* the cycles gives and from what the cycles alone give
C13_Witness ==
    /\ Called
    /\ Len(log) = 2
    /\ eng.val.useBaseEncoding
    /\ eng.val.mode = "decrypt"
    /\ text = Hello
    /\ fromBase(eng.val, LastInput) # Ok(LastInput)
    /\ out = Ok(Hello)
    /\ out = TransformCycles(eng.val, fromBase(eng.val, LastInput).val, log[2].cycles)
    /\ out # DecodedAfter(eng.val, TransformCycles(eng.val, LastInput, log[2].cycles))
    /\ out # TransformCycles(eng.val, LastInput, log[2].cycles)

\* the variants, other than the default one, whose transform reads the key
KeyVariants ==
    {"caesar", "vigenere", "xor", "ASCII", "Unicode Shift", "Reversed Caesar", "XOR Pro"}

\* a step that constructs an engine: the first one of a run, or the one that
\* builds the engine for the other mode
Constructs == eng.kind = "none" \/ args'.mode # args.mode

KeylessVariants ==
    {"ROT13", "ROT18", "ROT25", "ROT30", "ROT47", "Atbash", "Substitution", "Base64",
     "Numeric", "Affine"}

\* C15: the key-length requirement applies only to the variants that use a
\* key: an engine for a variant that uses none is constructed without an
\* error whatever the key, an empty or a short one included.
C15_KeylessNeedNoKey == eng.kind = "throw" => args.algorithm \notin KeylessVariants

\* C15 amended: the key-length requirement applies to every variant other than
\* 'default', the ones that use no key included: constructing an engine for
\* one of them throws "Key must be at least 8 characters long." when the key
\* has fewer than 8 characters, and succeeds when it has 8 or more.
C15_KeylessNeedKeyToo ==
    [][(Constructs /\ args'.algorithm \in KeylessVariants) =>
        /\ Len(args'.encryptionKey) < 8
            => eng' = Throw("Key must be at least 8 characters long.")
        /\ Len(args'.encryptionKey) >= 8 => eng'.kind = "ok"]_vars

\* constructing a ROT13 engine with the empty key threw
C15_Witness ==
    /\ eng = Throw("Key must be at least 8 characters long.")
    /\ args.algorithm = "ROT13"
    /\ args.encryptionKey = <<>>

\* the 20 variant identifiers
ListedVariants == Algorithms \ {"nonexistent"}

\* C16: a variant identifier outside the 20 listed ones is rejected at
\* configuration time, by the constructor and by setAlgorithm, so process
\* never runs a transform, the default one included, for an unknown
\* identifier.
C16_UnknownVariantRejected ==
    (Called /\ out.kind = "ok") => eng.val.algorithm \in ListedVariants

\* C17: for Affine and Affine Pro the existence of the inverse of a modulo m
\* is checked at configuration time, not at first use: an engine whose a has
\* no inverse (a = 4, m = 26) fails before any call of process, so process is
\* never called on one; with a = 5, m = 26 the inverse is 21.
C17_InverseCheckedAtConfiguration ==
    /\ _modInverse(5, 26) = 21
    /\ (Called /\ eng.val.algorithm \in {"Affine", "Affine Pro"})
        => _modInverse(eng.val.a, eng.val.m) # Null

\* whether s has a symbol that the alphabet does not have
HasForeignSymbol(alphabet, s) == \E i \in 1..Len(s) : indexOf(alphabet, s[i]) = -1

\* C18: with useBaseEncoding and mode decrypt, process on a non-empty input
\* with a symbol that is not in the alphabet fails with an error and returns
\* no result; the cycles never run on the input as it came.
C18_InvalidSymbolFails ==
    (/\ Called
     /\ eng.val.useBaseEncoding
     /\ eng.val.mode = "decrypt"
     /\ LastInput # <<>>
     /\ HasForeignSymbol(eng.val.baseLibrary.alphabet, LastInput))
    => out.kind = "throw"

\* C19: an alphabet with a symbol twice, or with one symbol only, is rejected
\* when the engine and its base codec are constructed: no engine has a base
\* codec built from one.
C19_AlphabetValidated ==
    eng.kind = "ok"
    => /\ DuplicateFree(eng.val.baseLibrary.alphabet)
       /\ Len(eng.val.baseLibrary.alphabet) >= 2

\* C20: with the alphabet "0123456789abcdef" the codec encodes the byte 0xAB
\* to two symbols, and decoding them gives the byte 0xAB.
C20_HexByte ==
    (args.alphabet = HexCharset /\ text = <<171>>)
    => /\ log = <<"encode">> => (out.kind = "ok" /\ Len(out.val) = 2)
       /\ log = <<"encode", "decode">> => out = Ok(<<171>>)

\* whether a token is a decimal number: one digit or more, and digits only
IsDecimal(token) == token # <<>> /\ \A i \in 1..Len(token) : token[i] \in 48..57

\* C22: with the Numeric variant in decrypt mode, an input that has a token
\* that is no decimal number (an empty token included) makes process fail
\* with an error instead of returning output.
C22_MalformedNumericFails ==
    (/\ Called
     /\ eng.val.algorithm = "Numeric"
     /\ eng.val.mode = "decrypt"
     /\ ~eng.val.useBaseEncoding
     /\ \E k \in 1..Len(split(LastInput, 45)) : ~IsDecimal(split(LastInput, 45)[k]))
    => out.kind = "throw"

\* the variants that transform the Latin letters only
LatinVariants ==
    {"ROT13", "ROT18", "ROT25", "ROT30", "Atbash", "Affine", "Affine Pro",
     "Substitution", "Substitution Pro", "Reversed Caesar"}

\* C23: domain closure of the Latin-letter-only variants. In both modes and
\* for every key of 8 characters or more, the output has the length of the
\* input, every character outside A-Z and a-z is output unchanged at its
\* position, a letter A-Z gives a letter A-Z and a letter a-z a letter a-z.
C23_LatinDomainClosure ==
    (/\ Called
     /\ eng.val.algorithm \in LatinVariants
     /\ ~eng.val.useBaseEncoding
     /\ Len(args.encryptionKey) >= 8
     /\ out.kind = "ok")
    => /\ Len(out.val) = Len(LastInput)
       /\ \A i \in 1..Len(LastInput) :
            /\ ~IsLetter(LastInput[i]) => out.val[i] = LastInput[i]
            /\ LastInput[i] \in 65..90 => out.val[i] \in 65..90
            /\ LastInput[i] \in 97..122 => out.val[i] \in 97..122

\* a step that is a call of process
Calls == Len(log') = Len(log) + 1

\* C24: process has no side effect on the engine. Whether it returns or
\* throws, mode, variant, key material, alphabet, useBaseEncoding, the affine
\* parameters and the tables are what they were, so the outcome is one the
\* same call on the engine after it gives.
C24_ProcessFrame ==
    [][Calls =>
        /\ eng' = eng
        /\ out' \in Outcomes(process(eng'.val, IF Len(log) = 0 THEN text' ELSE out.val,
                                      log'[Len(log')].cycles))]_vars

\* a call of process on a decrypting ROT47 engine threw, and the engine is the
\* one the constructor made
C24_Witness ==
    /\ Called
    /\ Len(log) = 1
    /\ out.kind = "throw"
    /\ eng.val.algorithm = "ROT47"
    /\ eng.val.mode = "decrypt"
    /\ eng = Tughra(args.mode, args.baseCharset, args.algorithm, args.encryptionKey,
                    args.useBaseEncoding)

\* C25: for every engine the constructor accepts, every text and every cycle
\* count, a call of process terminates: it returns a result or raises an
\* error.
C25_ProcessTerminates == Called => out.kind \in {"ok", "throw"}

\* C26: key-strength invariant over the engine's lifetime. In every state
\* reached by a successful construction followed by calls of setAlgorithm and
\* process, an engine whose variant is not 'default' has a key of 8
\* characters or more.
C26_KeyStrengthInvariant ==
    (eng.kind = "ok" /\ eng.val.algorithm # "default")
    => Len(args.encryptionKey) >= 8

\* C27: generateKey(count, rangeNames) returns count characters, each with a
\* code point between start and end of one of the named ranges, for every
\* range of the catalog, the ones above 0xFFFF included; a name that is not in
\* the catalog raises an error.
C27_GeneratedKeyInRanges ==
    log = <<"generateKey">> =>
        LET named == {g \in 1..Len(unicodeGroups) :
                        \E k \in 1..Len(args.groupNames) :
                            unicodeGroups[g].name = args.groupNames[k]}
            known == \A k \in 1..Len(args.groupNames) :
                        \E g \in 1..Len(unicodeGroups) :
                            unicodeGroups[g].name = args.groupNames[k]
        IN  /\ ~known => out.kind = "throw"
            /\ known =>
                /\ out.kind = "ok"
                /\ Len(out.val) = args.cycles
                /\ \A i \in 1..Len(out.val) :
                    \E g \in named :
                        /\ unicodeGroups[g].start <= out.val[i]
                        /\ out.val[i] <= unicodeGroups[g].end

RECURSIVE Passes(_, _, _)
\* the single-pass transform of the engine's variant and mode applied n times
\* in sequence to s, the last pass being applied to the result of the n - 1
\* passes before it; an exception of a pass ends the sequence
Passes(this, s, n) ==
    IF n = 0 THEN Ok(s)
    ELSE LET before == Passes(this, s, n - 1)
         IN  IF before.kind # "ok" THEN before
             ELSE _processCycle(this, before.val, this.mode)

\* C28: cycle sequencing. With base wrapping off and a variant that is not
\* cycle-forced, process(t, n) is the single-pass transform of the engine's
\* mode applied n times in sequence, every pass taking the whole output of
\* the pass before; hence process(process(t, a), b) is process(t, a + b).
C28_CycleSequencing ==
    (/\ Called
     /\ ~eng.val.useBaseEncoding
     /\ eng.val.algorithm \notin CycleInsensitive)
    => /\ out = Passes(eng.val, LastInput, log[Len(log)].cycles)
       /\ (Len(log) = 2 /\ log[1].mode = log[2].mode)
            => out = Passes(eng.val, text, log[1].cycles + log[2].cycles)

\* a caesar engine ran two cycles on "Hello, World!" and two more on the
\* result, which gave what four passes give and not what two give
C28_Witness ==
    /\ Called
    /\ Len(log) = 2
    /\ log[1].mode = log[2].mode
    /\ ~eng.val.useBaseEncoding
    /\ eng.val.algorithm = "caesar"
    /\ log[1].cycles = 2
    /\ log[2].cycles = 2
    /\ text = Hello
    /\ out.kind = "ok"
    /\ out = Passes(eng.val, Hello, 4)
    /\ out # Passes(eng.val, Hello, 2)

\* C29: for the Numeric variant decode(encode(t)) is t for every text t, the
\* empty text and the texts with "-" or digits included.
C29_NumericRoundTrip ==
    (/\ EncryptedThenDecrypted
     /\ log[1].algorithm = "Numeric"
     /\ ~log[1].useBaseEncoding)
    => out = Ok(text)

\* whether the construction of an engine and the call of process both return
\* for a request, in one of the ways its handling goes
BothReturn(data) ==
    LET tughra == Tughra(data.mode, data.baseCharset, data.algorithm,
                         data.encryptionKey, data.useBaseEncoding)
    IN  /\ tughra.kind = "ok"
        /\ \E r \in Outcomes(process(tughra.val, data.text, data.cycles)) : r.kind = "ok"

\* whether one of them throws
OneThrows(data) ==
    LET tughra == Tughra(data.mode, data.baseCharset, data.algorithm,
                         data.encryptionKey, data.useBaseEncoding)
    IN  \/ tughra.kind = "throw"
        \/ process(tughra.val, data.text, data.cycles).kind = "throw"

\* C21: every response the worker posts has exactly one of the fields result
\* and error populated (not null): result when the construction of the engine
\* and process both return, error, with the message of the exception, when
\* one of them throws; and no exception leaves the message handler.
C21_ResponseShape ==
    /\ \A k \in 1..Len(out) :
        /\ (out[k].result = <<>>) # (out[k].error = <<>>)
        /\ out[k].result # <<>> => BothReturn(text[k])
        /\ out[k].error # <<>> =>
            /\ OneThrows(text[k])
            /\ out[k].error[1] # ""
    /\ \A k \in 1..Len(log) :
        /\ log[k] # "uncaught"
        /\ (log[k] = "returned" /\ OneThrows(text[k])) => out[k].error # <<>>

\* two requests were handled, one with a result and one with the error of a
\* process call that threw
C21_Witness ==
    /\ Len(out) = 2
    /\ out[1] = ErrorMessage("this.encryptROT47 is not a function")
    /\ out[2].error = <<>>
    /\ out[2].result = <<<<>>>>

\* C30: worker relay. For every request received the worker posts exactly one
\* response, the responses come in the order of the requests, and each is
\* the one a fresh engine gives for the fields of its own request.
C30_OneResponsePerRequest ==
    /\ Len(out) = Len(text)
    /\ \A k \in 1..Len(out) :
        \E run \in onmessage(text[k]) : run.posted = <<out[k]>>

====
